---- MODULE Spec2Model ----
(***************************************************************************)
(* Quadtree grayscale codec: bit stream (bit.c), quadtree store            *)
(* (quadtree.c), builder / filter / encoder (encode.c), decoder and        *)
(* painter (decode.c).                                                     *)
(*                                                                         *)
(* Pointers into the stream buffer are byte offsets from the allocation    *)
(* base (`address`), so `start` and `ptr` are naturals.  A node's double   *)
(* variance v is kept exactly as the integer  w = (v * size^2)^2  where    *)
(* size is the side of the node's quadrant (w = 0 for a leaf), so that     *)
(* every comparison the code makes on variances is an integer comparison.  *)
(***************************************************************************)
EXTENDS Integers, Sequences, FiniteSets, TLC

\* ------------------------------------------------------------------ bounds

\* Deepest quadtree explored (image side 2^MaxLevels).
MaxLevels == 2

\* Bytes of memory modelled past the end of a stream allocation.
Slack == 1

\* ------------------------------------------------------------------ constants

CHAR_BIT == 8

\* Pixel values the rasters are drawn from.
PixelVals == {0, 1, 255}

\* 2x2 blocks (row-major) that tile the quadrants of the larger rasters.
Blocks ==
    { <<0, 0, 0, 0>>, <<255, 255, 255, 255>>, <<10, 20, 30, 40>>, <<1, 2, 3, 5>> }

\* Contents an uninitialised or out-of-bounds byte may show.
GarbageBytes == {0, 255}

\* ------------------------------------------------------------------ arithmetic

RECURSIVE Pow(_, _)
Pow(b, e) == IF e = 0 THEN 1 ELSE b * Pow(b, e - 1)

\* TRUE, after TLC has evaluated the record or function x: used to fix the
\* order of evaluation of a chain of definitions (TLC evaluates LET
\* definitions on demand).
Evaluated(x) == DOMAIN x = DOMAIN x

\* (unsigned char) conversion of an int.
ToUChar(x) == x % 256

\* ------------------------------------------------------------------ bit.c

\* A fresh stream of `size` bytes; malloc leaves the bytes holding g.
\* buf is the memory from `address` on, Slack bytes past the allocation
\* included.  Three fields are history, not program state: oob (a byte was
\* stored past the allocation), past (a byte was read past the allocation)
\* and log (the <<src, nbit>> of every call of pushbits, in order).
initBitStream(size, g) ==
    [ buf   |-> [i \in 0..(size + Slack - 1) |-> g],
      size  |-> size,
      start |-> 0,
      ptr   |-> 0,
      capa  |-> CHAR_BIT,
      oob   |-> FALSE,
      past  |-> FALSE,
      log   |-> << >> ]

\* 1 << b
Shl1(b) == IF b < 8 THEN <<1, 2, 4, 8, 16, 32, 64, 128>>[b + 1] ELSE Pow(2, b)

\* (byte >> b) & 1
getbit(byte, b) == (byte \div Shl1(b)) % 2

\* byte |= (1 << b)  or  byte &= ~(1 << b)
setbit(byte, b, valb) ==
    IF valb # 0
    THEN IF getbit(byte, b) = 1 THEN byte ELSE byte + Shl1(b)
    ELSE IF getbit(byte, b) = 1 THEN byte - Shl1(b) ELSE byte

\* The loop of pushbits from iteration i on.  oob records a store past the
\* allocation; a store past the modelled memory is dropped.
RECURSIVE pushbits_loop(_, _, _, _)
pushbits_loop(curr, src, nbit, i) ==
    IF i >= nbit THEN curr
    ELSE LET c1 == IF curr.capa = 0
                   THEN [curr EXCEPT !.ptr = @ + 1, !.capa = CHAR_BIT]
                   ELSE curr
             bit_to_write == getbit(src, nbit - 1 - i)
             c2 == IF c1.ptr \in DOMAIN c1.buf
                   THEN [c1 EXCEPT !.buf[c1.ptr] = setbit(@, c1.capa - 1, bit_to_write),
                                   !.capa = @ - 1,
                                   !.oob = @ \/ (c1.ptr >= c1.size)]
                   ELSE [c1 EXCEPT !.capa = @ - 1, !.oob = TRUE]
         IN  IF Evaluated(c2) THEN pushbits_loop(c2, src, nbit, i + 1) ELSE c2

pushbits(curr, src, nbit) ==
    pushbits_loop([curr EXCEPT !.log = Append(@, <<src, nbit>>)], src, nbit, 0)

\* push_n_bits: src is an unsigned char parameter.  pushbits reports nbit
\* bits written whatever happens, so the error branch is never taken.
push_n_bits(stream, src, n) == pushbits(stream, ToUChar(src), n)

\* The byte the read cursor sees; g stands for memory past the modelled bytes.
ReadByte(curr, g) ==
    IF curr.start \in DOMAIN curr.buf THEN curr.buf[curr.start] ELSE g

\* The loop of pullbits from iteration i on:
\* [s |-> stream, dest |-> byte, bits_readed |-> count].
RECURSIVE pullbits_loop(_, _, _, _, _)
pullbits_loop(curr, dest, nbit, i, g) ==
    IF i >= nbit THEN [s |-> curr, dest |-> dest, bits_readed |-> i]
    ELSE LET c1 == IF curr.capa = 0
                   THEN [curr EXCEPT !.start = @ + 1, !.capa = CHAR_BIT]
                   ELSE curr
             bit_to_read == getbit(ReadByte(c1, g), c1.capa - 1)
             c2 == [c1 EXCEPT !.capa = @ - 1, !.past = @ \/ c1.start >= c1.size]
             d2 == setbit(dest, nbit - 1 - i, bit_to_read)
         IN  IF Evaluated(c2) /\ d2 = d2
             THEN pullbits_loop(c2, d2, nbit, i + 1, g)
             ELSE [s |-> c2, dest |-> d2, bits_readed |-> i]

pullbits(curr, nbit, g) == pullbits_loop(curr, 0, nbit, 0, g)

\* read_n_bits: [s |-> stream, dest |-> byte, failed |-> the error branch
\* (message, freeBitStream, exit) was taken].
read_n_bits(stream, n, g) ==
    LET r == pullbits(stream, n, g)
    IN  [s |-> r.s, dest |-> r.dest, failed |-> r.bits_readed # n]

\* (variant: a byte that is exactly full is taken for finished)
finishBitStream_partial_only(stream) ==
    IF stream.capa # CHAR_BIT /\ stream.capa # 0
    THEN LET s1 == push_n_bits(stream, 0, stream.capa)
         IN  [s1 EXCEPT !.ptr = @ + 1, !.capa = CHAR_BIT]
    ELSE stream

finishBitStream(stream) ==
    IF stream.capa # CHAR_BIT
    THEN LET s1 == push_n_bits(stream, 0, stream.capa)
         IN  [s1 EXCEPT !.ptr = @ + 1, !.capa = CHAR_BIT]
    ELSE stream

BitStream_size(stream) ==
    (stream.ptr - stream.start) * CHAR_BIT + (CHAR_BIT - stream.capa)

\* ------------------------------------------------------------------ quadtree.c

\* Width of int, the type of total_nodes and of 1 << (2 * i).
IntWidth == 32

INT_MAX == 2147483647

\* The loop of create_empty_quadtree from iteration i on, in int arithmetic:
\* overflow is set when the shift or the sum leaves the range of int, which
\* the language leaves undefined.
RECURSIVE total_nodes_loop(_, _, _)
total_nodes_loop(levels, i, total_nodes) ==
    IF i > levels THEN [total_nodes |-> total_nodes, overflow |-> FALSE]
    ELSE IF 2 * i >= IntWidth - 1 \/ Pow(2, 2 * i) > INT_MAX - total_nodes
    THEN [total_nodes |-> total_nodes, overflow |-> TRUE]
    ELSE total_nodes_loop(levels, i + 1, total_nodes + Pow(2, 2 * i))

\* 4^0 + ... + 4^levels, the node count of a tree of that many levels.
RECURSIVE TotalNodes(_)
TotalNodes(levels) ==
    IF levels < 0 THEN 0 ELSE Pow(4, levels) + TotalNodes(levels - 1)

is_leaf(quadtree, index) ==
    index >= quadtree.total_nodes - Pow(2, 2 * quadtree.levels)

\* A double that was never written; the code never reads one.
Indeterminate == "indeterminate"

\* A malloc'd node before it is written: its bytes show g.
UninitNode(g) == [moyenne |-> g, epsilon |-> g, u |-> g, v |-> Indeterminate]

create_empty_quadtree(levels, g) ==
    LET total_nodes == total_nodes_loop(levels, 0, 0).total_nodes
    IN  [ nodes       |-> [i \in 0..(total_nodes - 1) |-> UninitNode(g)],
          total_nodes |-> total_nodes,
          levels      |-> levels,
          medvar      |-> [terms |-> << >>, div |-> 1],
          maxvar      |-> [w |-> 0, size |-> 1] ]

\* ------------------------------------------------------------------ image.c

allocate_image(width, image_size, max_val, g) ==
    [ width      |-> width,
      image_size |-> image_size,
      max_val    |-> max_val,
      image      |-> [i \in 0..(image_size - 1) |-> g] ]

\* ------------------------------------------------------------------ encode.c

\* (int) log2(width) for width >= 1.
RECURSIVE Log2(_)
Log2(width) == IF width <= 1 THEN 0 ELSE 1 + Log2(width \div 2)

\* variance a > variance b, on the exact representation.
VarGreater(a, b) == a.w * Pow(b.size, 4) > b.w * Pow(a.size, 4)

\* moyenne = somme_moyennes / 4 and epsilon = somme_moyennes % 4, stored in
\* unsigned char fields.
\* (variant: the mean rounded to nearest instead of truncated)
node_moyenne_rounded(somme_moyennes) == ToUChar((somme_moyennes + 2) \div 4)

node_moyenne(somme_moyennes) == ToUChar(somme_moyennes \div 4)

node_epsilon(somme_moyennes) == ToUChar(somme_moyennes % 4)

\* (variant: the test on the means alone, the children's flags ignored)
node_uniform_means_only(c0, c1, c2, c3) ==
    IF c0.moyenne = c1.moyenne /\ c1.moyenne = c2.moyenne /\ c2.moyenne = c3.moyenne
    THEN 1 ELSE 0

\* The uniformity test on the four children c0..c3.
node_uniform(c0, c1, c2, c3) ==
    IF /\ c0.moyenne = c1.moyenne
       /\ c1.moyenne = c2.moyenne
       /\ c2.moyenne = c3.moyenne
       /\ c0.u = 1
       /\ c1.u = 1
       /\ c2.u = 1
       /\ c3.u = 1
    THEN 1 ELSE 0

\* (variant: row and column exchanged)
leaf_pixel_transposed(image, x, y) == image.image[x * image.width + y]

\* The pixel a leaf copies.
leaf_pixel(image, x, y) == image.image[y * image.width + x]

\* The part of build_quadtree_rec after the four recursive calls.
build_node(quadtree, size, index) ==
    LET child(i)       == quadtree.nodes[4 * index + i + 1]
        child_size     == size \div 2
        somme_moyennes == child(0).moyenne + child(1).moyenne
                          + child(2).moyenne + child(3).moyenne
        moyenne        == node_moyenne(somme_moyennes)
        epsilon        == node_epsilon(somme_moyennes)
        sq(d)          == d * d
        somme_v        == child(0).v + child(1).v + child(2).v + child(3).v
                          + Pow(child_size, 4)
                            * ( sq(moyenne - child(0).moyenne)
                              + sq(moyenne - child(1).moyenne)
                              + sq(moyenne - child(2).moyenne)
                              + sq(moyenne - child(3).moyenne) )
        var            == [w |-> somme_v, size |-> size]
        u              == node_uniform(child(0), child(1), child(2), child(3))
    IN  [quadtree EXCEPT
            !.nodes[index] = [moyenne |-> moyenne, epsilon |-> epsilon,
                              u |-> u, v |-> somme_v],
            !.medvar.terms = Append(@, var),
            !.maxvar = IF VarGreater(var, @) THEN var ELSE @]

\* (variant: the children taken row by row, third bottom-left, fourth
\* bottom-right)
RECURSIVE build_quadtree_rec_row_major(_, _, _, _, _, _)
build_quadtree_rec_row_major(quadtree, image, size, index, x, y) ==
    IF size = 1
    THEN [quadtree EXCEPT
            !.nodes[index] = [moyenne |-> leaf_pixel(image, x, y),
                              epsilon |-> 0, u |-> 1, v |-> 0]]
    ELSE LET child_size == size \div 2
             q1 == build_quadtree_rec_row_major(quadtree, image, child_size,
                                                4 * index + 1, x, y)
             q2 == build_quadtree_rec_row_major(q1, image, child_size,
                                                4 * index + 2, x + child_size, y)
             q3 == build_quadtree_rec_row_major(q2, image, child_size,
                                                4 * index + 3, x, y + child_size)
             q4 == build_quadtree_rec_row_major(q3, image, child_size,
                                                4 * index + 4,
                                                x + child_size, y + child_size)
         IN  IF Evaluated(q1) /\ Evaluated(q2) /\ Evaluated(q3) /\ Evaluated(q4)
             THEN build_node(q4, size, index)
             ELSE quadtree

RECURSIVE build_quadtree_rec(_, _, _, _, _, _)
build_quadtree_rec(quadtree, image, size, index, x, y) ==
    IF size = 1
    THEN [quadtree EXCEPT
            !.nodes[index] = [moyenne |-> leaf_pixel(image, x, y),
                              epsilon |-> 0, u |-> 1, v |-> 0]]
    ELSE LET child_size == size \div 2
             q1 == build_quadtree_rec(quadtree, image, child_size, 4 * index + 1, x, y)
             q2 == build_quadtree_rec(q1, image, child_size, 4 * index + 2,
                                      x + child_size, y)
             q3 == build_quadtree_rec(q2, image, child_size, 4 * index + 3,
                                      x + child_size, y + child_size)
             q4 == build_quadtree_rec(q3, image, child_size, 4 * index + 4,
                                      x, y + child_size)
         IN  IF Evaluated(q1) /\ Evaluated(q2) /\ Evaluated(q3) /\ Evaluated(q4)
             THEN build_node(q4, size, index)
             ELSE quadtree

build_quadtree_from_image(image, g) ==
    LET n        == Log2(image.width)
        quadtree == create_empty_quadtree(n, g)
        built    == build_quadtree_rec(quadtree, image, image.width, 0, 0, 0)
    IN  [built EXCEPT
            !.medvar.div = built.total_nodes - Pow(2, 2 * built.levels)]

\* A non-negative rational threshold is [num, den]; sigma * alpha.
RatMul(a, b) == [num |-> a.num * b.num, den |-> a.den * b.den]

\* Side of the quadrant node `index` covers: 2^(levels - depth).
RECURSIVE Depth(_)
Depth(index) == IF index = 0 THEN 0 ELSE 1 + Depth((index - 1) \div 4)

NodeSize(quadtree, index) == Pow(2, quadtree.levels - Depth(index))

\* node->v > sigma, for sigma = num/den >= 0 and v = sqrt(w) / size^2.
VarAbove(quadtree, index, sigma) ==
    quadtree.nodes[index].v * sigma.den * sigma.den
        > sigma.num * sigma.num * Pow(NodeSize(quadtree, index), 4)

\* (variant: the flag set, epsilon left as it was)
uniformize_flag_only(node) == [node EXCEPT !.u = 1]

\* (variant: the variance of the merged node reset as well)
uniformize_clears_variance(node) == [node EXCEPT !.epsilon = 0, !.u = 1, !.v = 0]

\* The two stores that make a node uniform.
uniformize(node) == [node EXCEPT !.epsilon = 0, !.u = 1]

\* (variant: 0 returned for a node that was just made uniform)
RECURSIVE filtrage_reports_zero(_, _, _, _)
filtrage_reports_zero(quadtree, index, sigma, alpha) ==
    IF quadtree.nodes[index].u # 0 THEN [q |-> quadtree, r |-> 1]
    ELSE LET sa == RatMul(sigma, alpha)
             f1 == filtrage_reports_zero(quadtree, 4 * index + 1, sa, alpha)
             f2 == filtrage_reports_zero(f1.q, 4 * index + 2, sa, alpha)
             f3 == filtrage_reports_zero(f2.q, 4 * index + 3, sa, alpha)
             f4 == filtrage_reports_zero(f3.q, 4 * index + 4, sa, alpha)
             s  == f1.r + f2.r + f3.r + f4.r
         IN  IF ~(Evaluated(f1) /\ Evaluated(f2) /\ Evaluated(f3) /\ Evaluated(f4))
             THEN [q |-> quadtree, r |-> 0]
             ELSE IF s < 4 \/ VarAbove(f4.q, index, sigma)
             THEN [q |-> f4.q, r |-> 0]
             ELSE [q |-> [f4.q EXCEPT !.nodes[index] = uniformize(@)], r |-> 0]

\* filtrage: [q |-> the tree afterwards, r |-> the returned flag].
\* (variant: the variance alone decides, whatever the children returned)
RECURSIVE filtrage_variance_only(_, _, _, _)
filtrage_variance_only(quadtree, index, sigma, alpha) ==
    IF quadtree.nodes[index].u # 0 THEN [q |-> quadtree, r |-> 1]
    ELSE LET sa == RatMul(sigma, alpha)
             f1 == filtrage_variance_only(quadtree, 4 * index + 1, sa, alpha)
             f2 == filtrage_variance_only(f1.q, 4 * index + 2, sa, alpha)
             f3 == filtrage_variance_only(f2.q, 4 * index + 3, sa, alpha)
             f4 == filtrage_variance_only(f3.q, 4 * index + 4, sa, alpha)
         IN  IF ~(Evaluated(f1) /\ Evaluated(f2) /\ Evaluated(f3) /\ Evaluated(f4))
             THEN [q |-> quadtree, r |-> 0]
             ELSE IF VarAbove(f4.q, index, sigma)
             THEN [q |-> f4.q, r |-> 0]
             ELSE [q |-> [f4.q EXCEPT !.nodes[index] = uniformize(@)], r |-> 1]

\* (variant: the children tested against the threshold of their parent)
RECURSIVE filtrage_constant_sigma(_, _, _, _)
filtrage_constant_sigma(quadtree, index, sigma, alpha) ==
    IF quadtree.nodes[index].u # 0 THEN [q |-> quadtree, r |-> 1]
    ELSE LET f1 == filtrage_constant_sigma(quadtree, 4 * index + 1, sigma, alpha)
             f2 == filtrage_constant_sigma(f1.q, 4 * index + 2, sigma, alpha)
             f3 == filtrage_constant_sigma(f2.q, 4 * index + 3, sigma, alpha)
             f4 == filtrage_constant_sigma(f3.q, 4 * index + 4, sigma, alpha)
             s  == f1.r + f2.r + f3.r + f4.r
         IN  IF ~(Evaluated(f1) /\ Evaluated(f2) /\ Evaluated(f3) /\ Evaluated(f4))
             THEN [q |-> quadtree, r |-> 0]
             ELSE IF s < 4 \/ VarAbove(f4.q, index, sigma)
             THEN [q |-> f4.q, r |-> 0]
             ELSE [q |-> [f4.q EXCEPT !.nodes[index] = uniformize(@)], r |-> 1]

RECURSIVE filtrage(_, _, _, _)
filtrage(quadtree, index, sigma, alpha) ==
    IF quadtree.nodes[index].u # 0 THEN [q |-> quadtree, r |-> 1]
    ELSE LET sa == RatMul(sigma, alpha)
             f1 == filtrage(quadtree, 4 * index + 1, sa, alpha)
             f2 == filtrage(f1.q, 4 * index + 2, sa, alpha)
             f3 == filtrage(f2.q, 4 * index + 3, sa, alpha)
             f4 == filtrage(f3.q, 4 * index + 4, sa, alpha)
             s  == f1.r + f2.r + f3.r + f4.r
         IN  IF ~(Evaluated(f1) /\ Evaluated(f2) /\ Evaluated(f3) /\ Evaluated(f4))
             THEN [q |-> quadtree, r |-> 0]
             ELSE IF s < 4 \/ VarAbove(f4.q, index, sigma)
             THEN [q |-> f4.q, r |-> 0]
             ELSE [q |-> [f4.q EXCEPT !.nodes[index] = uniformize(@)], r |-> 1]

write_node(stream, node, index) ==
    LET s1 == IF index % 4 # 0 \/ index = 0
              THEN push_n_bits(stream, node.moyenne, 8)
              ELSE stream
        s2 == push_n_bits(s1, node.epsilon, 2)
    IN  IF node.epsilon = 0 THEN push_n_bits(s2, node.u, 1) ELSE s2

\* (variant: the fourth child written like its siblings)
write_leaf_all_children(stream, node, index) == push_n_bits(stream, node.moyenne, 8)

write_leaf(stream, node, index) ==
    IF index % 4 # 0 THEN push_n_bits(stream, node.moyenne, 8) ELSE stream

\* (variant: the root handled like any other node)
encode_step_no_root_case(stream, quadtree, i) ==
    IF i # 0 /\ quadtree.nodes[(i - 1) \div 4].u # 0 THEN stream
    ELSE IF is_leaf(quadtree, i)
         THEN write_leaf(stream, quadtree.nodes[i], i)
         ELSE write_node(stream, quadtree.nodes[i], i)

\* One iteration of the loop of encode.
encode_step(stream, quadtree, i) ==
    IF i = 0 THEN write_node(stream, quadtree.nodes[i], i)
    ELSE IF quadtree.nodes[(i - 1) \div 4].u # 0 THEN stream
    ELSE IF is_leaf(quadtree, i)
         THEN write_leaf(stream, quadtree.nodes[i], i)
         ELSE write_node(stream, quadtree.nodes[i], i)

RECURSIVE encode_loop(_, _, _)
encode_loop(stream, quadtree, i) ==
    IF i >= quadtree.total_nodes THEN stream
    ELSE LET s == encode_step(stream, quadtree, i)
         IN  IF Evaluated(s) THEN encode_loop(s, quadtree, i + 1) ELSE s

encode(quadtree, g) ==
    LET s0 == initBitStream(quadtree.total_nodes * 2, g)
        s1 == push_n_bits(s0, quadtree.levels, 8)
    IN  finishBitStream(encode_loop(s1, quadtree, 0))

\* ------------------------------------------------------------------ decode.c

\* The readers return [s |-> stream, node |-> node].
\* read_node, field by field: each step takes the read of the field before
\* it as r and the node as filled so far, and yields [s |-> stream,
\* node |-> node].
read_node_u(r, node) ==
    [s |-> r.s, node |-> [node EXCEPT !.u = r.dest]]

read_node_epsilon(r, node, g) ==
    IF r.dest = 0
    THEN read_node_u(read_n_bits(r.s, 1, g), [node EXCEPT !.epsilon = r.dest])
    ELSE [s |-> r.s, node |-> [node EXCEPT !.epsilon = r.dest, !.u = 0]]

read_node_moyenne(r, node, g) ==
    read_node_epsilon(read_n_bits(r.s, 2, g), [node EXCEPT !.moyenne = r.dest], g)

read_node(stream, node, g) ==
    read_node_moyenne(read_n_bits(stream, 8, g), node, g)

read_leaf_moyenne(r, node) ==
    [s |-> r.s, node |-> [node EXCEPT !.moyenne = r.dest, !.epsilon = 0, !.u = 1]]

read_leaf(stream, node, g) ==
    read_leaf_moyenne(read_n_bits(stream, 8, g), node)

\* (variant: the remainder of the parent left out of the sum)
interpolated_without_epsilon(quadtree, parent_node, index) ==
    4 * parent_node.moyenne
        - quadtree.nodes[index - 1].moyenne
        - quadtree.nodes[index - 2].moyenne
        - quadtree.nodes[index - 3].moyenne

\* The value interpolation_4th_child computes before the store narrows it.
interpolated(quadtree, parent_node, index) ==
    4 * parent_node.moyenne + parent_node.epsilon
        - quadtree.nodes[index - 1].moyenne
        - quadtree.nodes[index - 2].moyenne
        - quadtree.nodes[index - 3].moyenne

interpolation_4th_child(stream, quadtree, node, parent_node, index, g) ==
    IF is_leaf(quadtree, index)
    THEN [s |-> stream,
          node |-> [node EXCEPT
                      !.moyenne = ToUChar(interpolated(quadtree, parent_node, index)),
                      !.epsilon = 0, !.u = 1]]
    ELSE read_node_epsilon(
             read_n_bits(stream, 2, g),
             [node EXCEPT !.moyenne = ToUChar(interpolated(quadtree, parent_node, index))],
             g)

\* (variant: under a uniform parent only the flags are set, the mean is
\* left as allocated)
decode_step_flags_only(stream, quadtree, i, g) ==
    IF i = 0 THEN read_node(stream, quadtree.nodes[i], g)
    ELSE IF quadtree.nodes[(i - 1) \div 4].u # 0
    THEN [s |-> stream,
          node |-> [quadtree.nodes[i] EXCEPT !.epsilon = 0, !.u = 1]]
    ELSE IF i % 4 = 0
    THEN interpolation_4th_child(stream, quadtree, quadtree.nodes[i],
                                 quadtree.nodes[(i - 1) \div 4], i, g)
    ELSE IF is_leaf(quadtree, i) THEN read_leaf(stream, quadtree.nodes[i], g)
    ELSE read_node(stream, quadtree.nodes[i], g)

\* One iteration of the loop of decode: [s |-> stream, node |-> nodes[i]].
decode_step(stream, quadtree, i, g) ==
    IF i = 0 THEN read_node(stream, quadtree.nodes[i], g)
    ELSE IF quadtree.nodes[(i - 1) \div 4].u # 0
    THEN [s |-> stream,
          node |-> [quadtree.nodes[i] EXCEPT
                      !.moyenne = quadtree.nodes[(i - 1) \div 4].moyenne,
                      !.epsilon = 0, !.u = 1]]
    ELSE IF i % 4 = 0
    THEN interpolation_4th_child(stream, quadtree, quadtree.nodes[i],
                                 quadtree.nodes[(i - 1) \div 4], i, g)
    ELSE IF is_leaf(quadtree, i) THEN read_leaf(stream, quadtree.nodes[i], g)
    ELSE read_node(stream, quadtree.nodes[i], g)

\* The loop of decode from node i on; decode_store keeps what iteration i
\* read as r.  [s |-> stream, q |-> quadtree, overflow |-> FALSE].
RECURSIVE decode_loop(_, _, _, _)
RECURSIVE decode_store(_, _, _, _)
decode_store(r, quadtree, i, g) ==
    IF Evaluated(r)
    THEN decode_loop(r.s, [quadtree EXCEPT !.nodes[i] = r.node], i + 1, g)
    ELSE r

decode_loop(stream, quadtree, i, g) ==
    IF i >= quadtree.total_nodes
    THEN [s |-> stream, q |-> quadtree, overflow |-> FALSE]
    ELSE decode_store(decode_step(stream, quadtree, i, g), quadtree, i, g)

\* decode, once the levels byte is read as r: overflow tells that the node
\* count left the range of int, after which nothing is defined and q is no
\* tree.  read_n_bits never takes its exit branch, so decode cannot fail.
decode_levels(r, g) ==
    IF total_nodes_loop(r.dest, 0, 0).overflow
    THEN [s |-> r.s, q |-> create_empty_quadtree(-1, 0), overflow |-> TRUE]
    ELSE decode_loop(r.s, create_empty_quadtree(r.dest, g), 0, g)

decode(stream, g) == decode_levels(read_n_bits(stream, 8, g), g)

RECURSIVE build_image_from_quadtree_rec(_, _, _, _, _, _)
build_image_from_quadtree_rec(quadtree, image, index, x, y, size) ==
    IF is_leaf(quadtree, index)
    THEN [image EXCEPT !.image[y * image.width + x] = quadtree.nodes[index].moyenne]
    ELSE LET child_size == size \div 2
             i1 == build_image_from_quadtree_rec(quadtree, image, 4 * index + 1,
                                                 x, y, child_size)
             i2 == build_image_from_quadtree_rec(quadtree, i1, 4 * index + 2,
                                                 x + child_size, y, child_size)
             i3 == build_image_from_quadtree_rec(quadtree, i2, 4 * index + 3,
                                                 x + child_size, y + child_size,
                                                 child_size)
         IN  IF Evaluated(i1) /\ Evaluated(i2) /\ Evaluated(i3)
             THEN build_image_from_quadtree_rec(quadtree, i3, 4 * index + 4,
                                                x, y + child_size, child_size)
             ELSE image

build_image_from_quadtree(quadtree, g) ==
    LET width == Pow(2, quadtree.levels)
        image == allocate_image(width, width * width, 255, g)
    IN  build_image_from_quadtree_rec(quadtree, image, 0, 0, 0, width)

\* ------------------------------------------------------------------ segmentation_grid.c

\* (variant: the row above the bloc only)
build_grid_top_only(image, x, y, size) ==
    [image EXCEPT !.image =
        [p \in DOMAIN image.image |->
            LET px == p % image.width
                py == p \div image.width
            IN  IF y > 0 /\ py = y - 1 /\ px \in x..(x + size - 1)
                   /\ px < image.width
                THEN 190
                ELSE image.image[p]]]

\* The two loops of build_grid: the row above the bloc and the column to
\* its left take the value 190, inside the image only.
build_grid(image, x, y, size) ==
    [image EXCEPT !.image =
        [p \in DOMAIN image.image |->
            LET px == p % image.width
                py == p \div image.width
            IN  IF \/ (y > 0 /\ py = y - 1 /\ px \in x..(x + size - 1)
                           /\ px < image.width)
                   \/ (x > 0 /\ px = x - 1 /\ py \in y..(y + size - 1)
                           /\ py < image.width)
                THEN 190
                ELSE image.image[p]]]

\* The indices of quadtree->nodes build_segmentation_grid reads from
\* node `index` on.  Nothing but the u flag stops the descent, so below a
\* leaf whose u is 0 the reads leave the array; the walk is followed one
\* step past the end.
RECURSIVE grid_reads(_, _)
grid_reads(quadtree, index) ==
    IF index >= quadtree.total_nodes THEN {index}
    ELSE IF quadtree.nodes[index].u # 0 THEN {index}
    ELSE {index} \cup grid_reads(quadtree, 4 * index + 1)
                 \cup grid_reads(quadtree, 4 * index + 2)
                 \cup grid_reads(quadtree, 4 * index + 3)
                 \cup grid_reads(quadtree, 4 * index + 4)

\* A read past the node array happens only below a leaf, with size 0:
\* whatever u it finds, no pixel is drawn from there on.
RECURSIVE build_segmentation_grid(_, _, _, _, _, _)
build_segmentation_grid(quadtree, image, size, index, x, y) ==
    IF index >= quadtree.total_nodes THEN image
    ELSE IF quadtree.nodes[index].u # 0
    THEN build_grid(image, x, y, size)
    ELSE LET child_size == size \div 2
             i1 == build_segmentation_grid(quadtree, image, child_size,
                                           4 * index + 1, x, y)
             i2 == build_segmentation_grid(quadtree, i1, child_size,
                                           4 * index + 2, x + child_size, y)
             i3 == build_segmentation_grid(quadtree, i2, child_size,
                                           4 * index + 3, x + child_size,
                                           y + child_size)
             i4 == build_segmentation_grid(quadtree, i3, child_size,
                                           4 * index + 4, x, y + child_size)
         IN  IF Evaluated(i1) /\ Evaluated(i2) /\ Evaluated(i3) /\ Evaluated(i4)
             THEN i4
             ELSE image

\* The canvas is allocated, set to 255 by memset, then drawn on.
generate_segmentation_grid(quadtree, g) ==
    LET width == Pow(2, quadtree.levels)
        image == [allocate_image(width, width * width, 255, g) EXCEPT
                     !.image = [p \in DOMAIN @ |-> 255]]
    IN  build_segmentation_grid(quadtree, image, width, 0, 0, 0)

\* ------------------------------------------------------------------ inputs

\* Rasters of side 2^n: every raster over PixelVals for n <= 1 (and the
\* blocks); for n = 2 each quadrant of the image is tiled with one block,
\* for n >= 3 opposite quadrants share their block.
Quadrant(x, y, width) ==
    IF y < width \div 2
    THEN (IF x < width \div 2 THEN 1 ELSE 2)
    ELSE (IF x < width \div 2 THEN 4 ELSE 3)

Tiled(width, q) ==
    [i \in 0..(width * width - 1) |->
        LET x == i % width
            y == i \div width
        IN  q[Quadrant(x, y, width)][2 * (y % 2) + (x % 2) + 1]]

Rasters(n) ==
    IF n = 0 THEN {[i \in 0..0 |-> p] : p \in PixelVals \cup {128}}
    ELSE IF n = 1
    THEN {[i \in 0..3 |-> c[i + 1]] : c \in [1..4 -> PixelVals] \cup Blocks}
    ELSE {Tiled(Pow(2, n), q) :
            q \in {t \in [1..4 -> Blocks] : n >= 3 => (t[3] = t[1] /\ t[4] = t[2])}}

\* Thresholds and factors handed to filtrage, as non-negative rationals.
Sigmas == { [num |-> 0, den |-> 1], [num |-> 1, den |-> 2],
            [num |-> 6, den |-> 1], [num |-> 200, den |-> 1] }

Alphas == { [num |-> 1, den |-> 2], [num |-> 1, den |-> 1], [num |-> 2, den |-> 1] }

\* Calls of filtrage explored on one tree.
MaxFilter == 2

\* ------------------------------------------------------------------ state

VARIABLES
    compression_info,   \* the global the writers share: comment lines
    files,      \* the files the process has written, in order
    grid,       \* the Image generate_segmentation_grid returned
    proc,       \* the process: command line, input file, heap, output, faults
    payload,    \* bytes of the QTC file after its header lines
    pc,         \* stage the run has reached
    image,      \* the input Image
    quadtree,   \* the tree built from image, filtered in place
    nfilter,    \* calls of filtrage made on quadtree
    stream,     \* the BitStream
    decoded,    \* the tree decode returned
    painted,    \* the Image painted from decoded
    pulled,     \* history of the reads made on stream by the bit-stream runs
    calls       \* history: how many pushes and finishes those runs made

vars == <<compression_info, files, grid, proc, payload, pc, image, quadtree, nfilter, stream, decoded, painted, pulled, calls>>

NoTree   == create_empty_quadtree(-1, 0)
NoImage  == allocate_image(0, 0, 0, 0)
NoStream == initBitStream(0, 0)
NoCalls  == [push |-> 0, finish |-> 0]

\* The six blocks a run allocates, and a heap on which none is allocated.
AllocNames ==
    {"image", "image.image", "quadtree", "quadtree.nodes", "stream", "stream.address"}

NoHeap == [a \in AllocNames |-> "none"]

NoOutput == [kind |-> "none"]

NoProc ==
    [ mode  |-> "none",
      alpha |-> [given |-> FALSE, num |-> 0, den |-> 1],
      pgm   |-> [width |-> 0, max_val |-> 0, pixels |-> << >>],
      fault |-> "none",
      heap  |-> NoHeap,
      out   |-> NoOutput ]

\* ------------------------------------------------------------------ encode / decode runs

Init ==
    /\ compression_info = << >>
    /\ files = << >>
    /\ grid = NoImage
    /\ proc = NoProc
    /\ payload = << >>
    /\ pc = "read"
    /\ \E n \in 0..MaxLevels : \E r \in Rasters(n) :
          image = [ width |-> Pow(2, n), image_size |-> Pow(4, n),
                    max_val |-> 255, image |-> r ]
    /\ quadtree = NoTree
    /\ nfilter = 0
    /\ stream = NoStream
    /\ decoded = NoTree
    /\ painted = NoImage
    /\ pulled = << >>
    /\ calls = NoCalls

Build ==
    /\ pc = "read"
    /\ \E g \in GarbageBytes : quadtree' = build_quadtree_from_image(image, g)
    /\ pc' = "built"
    /\ UNCHANGED <<compression_info, files, grid, proc, payload, image, nfilter, stream, decoded, painted, pulled, calls>>

Filter ==
    /\ pc = "built"
    /\ nfilter < MaxFilter
    /\ \E sigma \in Sigmas : \E alpha \in Alphas :
          quadtree' = filtrage(quadtree, 0, sigma, alpha).q
    /\ nfilter' = nfilter + 1
    /\ UNCHANGED <<compression_info, files, grid, proc, payload, pc, image, stream, decoded, painted, pulled, calls>>

\* What the memory holds after encode: bytes stored past the allocation
\* either survive or show something else.
AfterOverrun(s) ==
    IF s.oob
    THEN {s} \cup { [s EXCEPT !.buf = [i \in DOMAIN s.buf |->
                                         IF i >= s.size THEN b ELSE s.buf[i]]]
                    : b \in GarbageBytes }
    ELSE {s}

\* (variant: while a uniform node is encoded its children take its mean)
Encode_collapsing ==
    /\ pc = "built"
    /\ \E g \in GarbageBytes : stream' \in AfterOverrun(encode(quadtree, g))
    /\ quadtree' =
          [quadtree EXCEPT !.nodes =
              [i \in DOMAIN quadtree.nodes |->
                  IF i > 0 /\ quadtree.nodes[(i - 1) \div 4].u = 1
                  THEN [quadtree.nodes[i] EXCEPT
                           !.moyenne = quadtree.nodes[(i - 1) \div 4].moyenne]
                  ELSE quadtree.nodes[i]]]
    /\ pc' = "encoded"
    /\ UNCHANGED <<compression_info, files, grid, proc, payload, image, nfilter, decoded, painted, pulled, calls>>

Encode ==
    /\ pc = "built"
    /\ \E g \in GarbageBytes : stream' \in AfterOverrun(encode(quadtree, g))
    /\ pc' = "encoded"
    /\ UNCHANGED <<compression_info, files, grid, proc, payload, image, quadtree, nfilter, decoded, painted, pulled, calls>>

\* What a run can do once the node count overflowed: stop on the failed
\* allocation of a huge or negative count, crash, or carry on with anything.
OverflowOutcomes == {"alloc_exit", "crashed", "undefined"}

Decode ==
    /\ pc = "encoded"
    /\ \E g \in GarbageBytes : \E r \in {decode(stream, g)} :
              /\ decoded' = r.q
              /\ stream' = r.s
              /\ IF r.overflow THEN pc' \in OverflowOutcomes ELSE pc' = "decoded"
    /\ UNCHANGED <<compression_info, files, grid, proc, payload, image, quadtree, nfilter, painted, pulled, calls>>

Paint ==
    /\ pc = "decoded"
    /\ \E g \in GarbageBytes : painted' = build_image_from_quadtree(decoded, g)
    /\ pc' = "painted"
    /\ UNCHANGED <<compression_info, files, grid, proc, payload, image, quadtree, nfilter, stream, decoded, pulled, calls>>

Next == Build \/ Filter \/ Encode \/ Decode \/ Paint

Spec == Init /\ [][Next]_vars

\* ------------------------------------------------------------------ bit-stream runs

\* Calls of push_n_bits and of finishBitStream explored on one stream, and
\* the size of its buffer in bytes.
MaxPush == 2

MaxFinish == 2

BitBufSize == 2

\* Bytes pushed (01010101 and 11111111), and field widths: the ones the
\* codec pushes (8, 2, 1) and two more, so that the bits pushed leave every
\* remainder modulo 8.
PushVals == {85, 255}

Widths == {1, 2, 3, 7, CHAR_BIT}

RECURSIVE SumWidths(_, _)
SumWidths(log, k) == IF k = 0 THEN 0 ELSE log[k][2] + SumWidths(log, k - 1)

\* Bits the stream was given (padding included) and bits read from it.
BitsWritten == SumWidths(stream.log, Len(stream.log))

RECURSIVE BitsIn(_, _)
BitsIn(reads, k) == IF k = 0 THEN 0 ELSE reads[k].n + BitsIn(reads, k - 1)

BitsRead == BitsIn(pulled, Len(pulled))

InitBits ==
    /\ compression_info = << >>
    /\ files = << >>
    /\ grid = NoImage
    /\ proc = NoProc
    /\ payload = << >>
    /\ pc = "bits"
    /\ \E g \in GarbageBytes : stream = initBitStream(BitBufSize, g)
    /\ pulled = << >>
    /\ calls = NoCalls
    /\ image = NoImage
    /\ quadtree = NoTree
    /\ nfilter = 0
    /\ decoded = NoTree
    /\ painted = NoImage

\* push_n_bits(stream, v, n), while the buffer has room for the field.
Push ==
    /\ pc = "bits"
    /\ calls.push < MaxPush
    /\ calls.finish = 0
    /\ \E v \in PushVals : \E n \in Widths :
          /\ BitsWritten + n <= CHAR_BIT * BitBufSize
          /\ stream' = push_n_bits(stream, v, n)
    /\ calls' = [calls EXCEPT !.push = @ + 1]
    /\ UNCHANGED <<compression_info, files, grid, proc, payload, pc, image, quadtree, nfilter, decoded, painted, pulled>>

\* The read of one call of read_n_bits, as the history keeps it.
ReadRecord(r, n) ==
    [n |-> n, dest |-> r.dest, failed |-> r.failed, avail |-> BitsWritten - BitsRead]

\* The k-th read_n_bits, of the width of the k-th push, once that push was made.
Pull ==
    /\ pc = "bits"
    /\ Len(pulled) < calls.push
    /\ \E g \in GarbageBytes :
          \E r \in {read_n_bits(stream, stream.log[Len(pulled) + 1][2], g)} :
              /\ stream' = r.s
              /\ pulled' = Append(pulled, ReadRecord(r, stream.log[Len(pulled) + 1][2]))
    /\ UNCHANGED <<compression_info, files, grid, proc, payload, pc, image, quadtree, nfilter, decoded, painted, calls>>

\* A read_n_bits, of one of the widths decode reads, that asks for more bits
\* than the stream still holds; the run is followed no further.
ReadPast ==
    /\ pc = "bits"
    /\ \E n \in {1, 2, CHAR_BIT} : \E g \in GarbageBytes :
          /\ BitsWritten - BitsRead < n
          /\ \E r \in {read_n_bits(stream, n, g)} :
                /\ stream' = r.s
                /\ pulled' = Append(pulled, ReadRecord(r, n))
    /\ pc' = "read_past"
    /\ UNCHANGED <<compression_info, files, grid, proc, payload, image, quadtree, nfilter, decoded, painted, calls>>

Finish ==
    /\ pc = "bits"
    /\ calls.finish < MaxFinish
    /\ stream' = finishBitStream(stream)
    /\ calls' = [calls EXCEPT !.finish = @ + 1]
    /\ UNCHANGED <<compression_info, files, grid, proc, payload, pc, image, quadtree, nfilter, decoded, painted, pulled>>

NextBits == Push \/ Pull \/ ReadPast \/ Finish

SpecBits == InitBits /\ [][NextBits]_vars

\* ------------------------------------------------------------------ decoder runs

\* Bytes a QTC payload holds at most, and the bytes it is made of: levels
\* bytes for the first one, then 0 (epsilon 0, u 0), 32 (epsilon 0, u 1 when
\* the byte opens with the two fields) and 255 (epsilon 3).
MaxPayload == 4

LevelBytes == {0, 1, 2, 16, 255}

PayloadBytes == {0, 32, 255}

\* The payloads of n bytes.
Payloads(n) ==
    IF n = 0 THEN { << >> }
    ELSE { <<l>> \o t : l \in LevelBytes, t \in [1..(n - 1) -> PayloadBytes] }

\* The loop of read_bitstream_from_file_Q1 that copies the bytes in.
RECURSIVE push_bytes(_, _, _)
push_bytes(curr, buffer, i) ==
    IF i > Len(buffer) THEN curr
    ELSE LET s1 == push_n_bits(curr, buffer[i], 8)
         IN  IF Evaluated(s1) THEN push_bytes(s1, buffer, i + 1) ELSE s1

\* read_bitstream_from_file_Q1 on a file whose payload is buffer.
read_bitstream_from_file_Q1(buffer, g) ==
    finishBitStream(push_bytes(initBitStream(Len(buffer), g), buffer, 1))

InitDecode ==
    /\ compression_info = << >>
    /\ files = << >>
    /\ grid = NoImage
    /\ proc = NoProc
    /\ \E n \in 0..MaxPayload : payload \in Payloads(n)
    /\ pc = "file"
    /\ image = NoImage
    /\ quadtree = NoTree
    /\ nfilter = 0
    /\ stream = NoStream
    /\ decoded = NoTree
    /\ painted = NoImage
    /\ pulled = << >>
    /\ calls = NoCalls

ReadFile ==
    /\ pc = "file"
    /\ \E g \in GarbageBytes : stream' = read_bitstream_from_file_Q1(payload, g)
    /\ pc' = "encoded"
    /\ UNCHANGED <<compression_info, files, grid, proc, payload, image, quadtree, nfilter, decoded, painted, pulled, calls>>

NextDecode == ReadFile \/ Decode \/ Paint

SpecDecode == InitDecode /\ [][NextDecode]_vars

\* ------------------------------------------------------------------ irregular widths

\* Widths that are no power of two, as read_pgm accepts them: every 3x3
\* raster over black and white, and the uniform 6x6 rasters.
IrregularRasters ==
    { [width |-> 3, image_size |-> 9, max_val |-> 255, image |-> r] :
        r \in [0..8 -> {0, 255}] }
    \cup
    { [width |-> 6, image_size |-> 36, max_val |-> 255,
       image |-> [i \in 0..35 |-> p]] : p \in PixelVals }

InitIrregular ==
    /\ compression_info = << >>
    /\ files = << >>
    /\ grid = NoImage
    /\ proc = NoProc
    /\ payload = << >>
    /\ pc = "read"
    /\ image \in IrregularRasters
    /\ quadtree = NoTree
    /\ nfilter = 0
    /\ stream = NoStream
    /\ decoded = NoTree
    /\ painted = NoImage
    /\ pulled = << >>
    /\ calls = NoCalls

SpecIrregular == InitIrregular /\ [][Build]_vars

\* ------------------------------------------------------------------ runs of main

\* stdlib malloc and free on the named blocks; a free of a block that is not
\* live is recorded as such.
malloc(heap, a) == [heap EXCEPT ![a] = "live"]

free(heap, a) == [heap EXCEPT ![a] = IF @ = "live" THEN "freed" ELSE "invalid"]

free_image(heap) == free(free(heap, "image.image"), "image")

free_quadtree(heap) == free(free(heap, "quadtree.nodes"), "quadtree")

freeBitStream(heap) == free(free(heap, "stream.address"), "stream")

\* The -a option: absent (alpha stays 0.), or one of these values of atof.
MainAlphas ==
    { [given |-> FALSE, num |-> 0, den |-> 1] }
    \cup
    { [given |-> TRUE, num |-> r[1], den |-> r[2]] :
        r \in { <<0 - 1, 1>>, <<0, 1>>, <<1, 2>>, <<1, 1>>, <<2, 1>> } }

\* -c, -u, or neither.
Modes == {"c", "u", "neither"}

\* What the environment refuses during the run: nothing, the malloc of the
\* pixel array, or the fopen of the output file.
Faults == {"none", "alloc_pixels", "open_output"}

\* P5 files of side 1 and 2, with a maximum grey value of 1 or 255.
PgmFiles ==
    UNION { { [width |-> Pow(2, n), max_val |-> m, pixels |-> r] :
                m \in {1, 255}, r \in Rasters(n) } : n \in {0, 1} }

QtcFiles == UNION { Payloads(n) : n \in 0..3 }

\* read_pgm on a P5 file: the Image is allocated, then every byte is
\* checked against max_val; a byte that fails the check ends the run
\* after free(image).
read_pgm(file, fault, heap, g) ==
    LET h1   == malloc(heap, "image")
        h2   == malloc(h1, "image.image")
        size == file.width * file.width
    IN  IF fault = "alloc_pixels"
        THEN [ok |-> FALSE, heap |-> h1, image |-> NoImage]
        ELSE IF \E i \in 0..(size - 1) : file.pixels[i] > file.max_val
        THEN [ok |-> FALSE, heap |-> free(h2, "image"), image |-> NoImage]
        ELSE [ok |-> TRUE, heap |-> h2,
              image |-> [allocate_image(file.width, size, file.max_val, g)
                            EXCEPT !.image = file.pixels]]

\* quadtree->medvar / quadtree->maxvar, for a tree with at most one
\* internal node: 0/0 when no variance was accumulated, else v / div / v.
medvar_over_maxvar(q) ==
    IF q.maxvar.w = 0
    THEN [num |-> 0, den |-> 0]
    ELSE [num |-> 1, den |-> q.medvar.div]

\* The bytes fwrite sends to the file: start up to ptr.
written_bytes(s) == [k \in 1..(s.ptr - s.start) |-> s.buf[s.start + k - 1]]

\* The date the writers take from time(): the calls of one process are
\* numbered, and a call is made at the tick of its number.
Now == Len(files) + 1

\* write_bitstream_to_file_Q1: the compression date goes through the global
\* compression_info into the file, followed by the rate and the bytes.
write_bitstream_to_file_Q1(s, q, now) ==
    LET info == << [text |-> "# Compression date : ", date |-> now] >>
        rate == [text |-> "# Compression rate ",
                 num  |-> (s.ptr - s.start) * 8 - 8,
                 den  |-> Pow(2, q.levels) * Pow(2, q.levels) * 8]
    IN  [ compression_info |-> info,
          file |-> [format |-> "Q1", comments |-> info \o <<rate>>,
                    width |-> 0, max_val |-> 0, bytes |-> written_bytes(s)] ]

\* write_pgm_P5: the format, compression_info as it stands followed by the
\* decompression date, the dimensions, the pixels.
write_pgm_P5(img, info, now) ==
    [ format |-> "P5",
      comments |-> info \o << [text |-> "# Decompression date : ", date |-> now] >>,
      width |-> img.width, max_val |-> img.max_val,
      bytes |-> [k \in 1..img.image_size |-> img.image[k - 1]] ]

InitMain ==
    /\ compression_info = << >>
    /\ files = << >>
    /\ grid = NoImage
    /\ \E mode \in Modes, alpha \in MainAlphas, fault \in Faults :
         \E file \in IF mode = "c" THEN PgmFiles ELSE {NoProc.pgm} :
            proc = [ mode |-> mode, alpha |-> alpha, pgm |-> file,
                     fault |-> fault, heap |-> NoHeap, out |-> NoOutput ]
    /\ payload \in IF proc.mode = "u" THEN QtcFiles ELSE {<< >>}
    /\ pc = "main"
    /\ image = NoImage
    /\ quadtree = NoTree
    /\ nfilter = 0
    /\ stream = NoStream
    /\ decoded = NoTree
    /\ painted = NoImage
    /\ pulled = << >>
    /\ calls = NoCalls

\* The option loop and the check of -c and -u.
MainArgs ==
    /\ pc = "main"
    /\ pc' = IF proc.alpha.given /\ proc.alpha.num < 0 THEN "exit_failure"
             ELSE IF proc.mode = "c" THEN "c_read"
             ELSE IF proc.mode = "u" THEN "u_read"
             ELSE "exit_failure"
    /\ UNCHANGED <<compression_info, files, grid, proc, payload, image, quadtree, nfilter, stream, decoded,
                   painted, pulled, calls>>

MainReadPgm ==
    /\ pc = "c_read"
    /\ \E g \in GarbageBytes : \E r \in {read_pgm(proc.pgm, proc.fault, proc.heap, g)} :
          /\ proc' = [proc EXCEPT !.heap = r.heap]
          /\ image' = r.image
          /\ pc' = IF r.ok THEN "c_build" ELSE "exit_failure"
    /\ UNCHANGED <<compression_info, files, grid, payload, quadtree, nfilter, stream, decoded, painted, pulled, calls>>

MainBuild ==
    /\ pc = "c_build"
    /\ \E g \in GarbageBytes : quadtree' = build_quadtree_from_image(image, g)
    /\ proc' = [proc EXCEPT !.heap = malloc(malloc(@, "quadtree"), "quadtree.nodes")]
    /\ pc' = "c_filter"
    /\ UNCHANGED <<compression_info, files, grid, payload, image, nfilter, stream, decoded, painted, pulled, calls>>

\* if (alpha) filtrage(quadtree, quadtree->nodes, 0, medvar / maxvar, alpha);
MainFilter ==
    /\ pc = "c_filter"
    /\ IF proc.alpha.num # 0
       THEN /\ quadtree' = filtrage(quadtree, 0, medvar_over_maxvar(quadtree),
                                    proc.alpha).q
            /\ nfilter' = nfilter + 1
       ELSE UNCHANGED <<quadtree, nfilter>>
    /\ pc' = "c_encode"
    /\ UNCHANGED <<compression_info, files, grid, proc, payload, image, stream, decoded, painted, pulled, calls>>

MainEncode ==
    /\ pc = "c_encode"
    /\ \E g \in GarbageBytes : stream' \in AfterOverrun(encode(quadtree, g))
    /\ proc' = [proc EXCEPT !.heap = malloc(malloc(@, "stream"), "stream.address")]
    /\ pc' = "c_write"
    /\ UNCHANGED <<compression_info, files, grid, payload, image, quadtree, nfilter, decoded, painted, pulled, calls>>

\* write_qtc, then the three frees that end the encoding branch.
MainWriteQtc ==
    /\ pc = "c_write"
    /\ IF proc.fault = "open_output"
       THEN /\ pc' = "exit_failure"
            /\ UNCHANGED <<proc, compression_info, files>>
       ELSE /\ proc' = [proc EXCEPT
                           !.out  = [kind |-> "qtc", bytes |-> written_bytes(stream)],
                           !.heap = freeBitStream(free_quadtree(free_image(@)))]
            /\ \E w \in {write_bitstream_to_file_Q1(stream, quadtree, Now)} :
                  /\ compression_info' = w.compression_info
                  /\ files' = Append(files, w.file)
            /\ pc' = "exit_success"
    /\ UNCHANGED <<grid, payload, image, quadtree, nfilter, stream, decoded, painted,
                   pulled, calls>>

MainReadQtc ==
    /\ pc = "u_read"
    /\ \E g \in GarbageBytes : stream' = read_bitstream_from_file_Q1(payload, g)
    /\ proc' = [proc EXCEPT !.heap = malloc(malloc(@, "stream"), "stream.address")]
    /\ pc' = "u_decode"
    /\ UNCHANGED <<compression_info, files, grid, payload, image, quadtree, nfilter, decoded, painted, pulled, calls>>

MainDecode ==
    /\ pc = "u_decode"
    /\ \E g \in GarbageBytes : \E r \in {decode(stream, g)} :
          /\ decoded' = r.q
          /\ stream' = r.s
          /\ IF r.overflow
             THEN /\ pc' \in OverflowOutcomes
                  /\ UNCHANGED proc
             ELSE /\ pc' = "u_paint"
                  /\ proc' = [proc EXCEPT
                                 !.heap = malloc(malloc(@, "quadtree"), "quadtree.nodes")]
    /\ UNCHANGED <<compression_info, files, grid, payload, image, quadtree, nfilter, painted, pulled, calls>>

MainPaint ==
    /\ pc = "u_paint"
    /\ IF proc.fault = "alloc_pixels"
       THEN /\ proc' = [proc EXCEPT !.heap = malloc(@, "image")]
            /\ pc' = "exit_failure"
            /\ UNCHANGED painted
       ELSE /\ \E g \in GarbageBytes : painted' = build_image_from_quadtree(decoded, g)
            /\ proc' = [proc EXCEPT !.heap = malloc(malloc(@, "image"), "image.image")]
            /\ pc' = "u_write"
    /\ UNCHANGED <<compression_info, files, grid, payload, image, quadtree, nfilter, stream, decoded, pulled, calls>>

\* write_pgm, then the three frees that end the decoding branch.
MainWritePgm ==
    /\ pc = "u_write"
    /\ IF proc.fault = "open_output"
       THEN /\ pc' = "exit_failure"
            /\ UNCHANGED <<proc, files>>
       ELSE /\ proc' = [proc EXCEPT
                           !.out  = [kind  |-> "pgm",
                                     bytes |-> [k \in 1..painted.image_size |->
                                                   painted.image[k - 1]]],
                           !.heap = free_image(free_quadtree(freeBitStream(@)))]
            /\ files' = Append(files, write_pgm_P5(painted, compression_info, Now))
            /\ pc' = "exit_success"
    /\ UNCHANGED <<compression_info, grid, payload, image, quadtree, nfilter, stream, decoded,
                   painted, pulled, calls>>

NextMain ==
    \/ MainArgs
    \/ MainReadPgm \/ MainBuild \/ MainFilter \/ MainEncode \/ MainWriteQtc
    \/ MainReadQtc \/ MainDecode \/ MainPaint \/ MainWritePgm

SpecMain == InitMain /\ [][NextMain]_vars

\* ------------------------------------------------------------------ writer calls

\* Calls of write_qtc and write_pgm explored in one process.
MaxWrites == 3

\* The images handed to the writers, and to build and encode before
\* write_qtc.
WriterImages ==
    { [width |-> 1, image_size |-> 1, max_val |-> 255, image |-> r] :
        r \in Rasters(0) }
    \cup
    { [width |-> 2, image_size |-> 4, max_val |-> 255,
       image |-> [i \in 0..3 |-> c[i + 1]]] : c \in Blocks }

InitWriters ==
    /\ compression_info = << >>
    /\ files = << >>
    /\ grid = NoImage
    /\ proc = NoProc
    /\ payload = << >>
    /\ pc = "writers"
    /\ image = NoImage
    /\ quadtree = NoTree
    /\ nfilter = 0
    /\ stream = NoStream
    /\ decoded = NoTree
    /\ painted = NoImage
    /\ pulled = << >>
    /\ calls = NoCalls

\* write_qtc of the encoding of an image.
WriteQtc ==
    /\ pc = "writers"
    /\ Len(files) < MaxWrites
    /\ \E img \in WriterImages :
          \E q \in {build_quadtree_from_image(img, 0)} :
             \E w \in {write_bitstream_to_file_Q1(encode(q, 0), q, Now)} :
                /\ compression_info' = w.compression_info
                /\ files' = Append(files, w.file)
    /\ UNCHANGED <<grid, proc, payload, pc, image, quadtree, nfilter, stream, decoded,
                   painted, pulled, calls>>

\* write_pgm of an image.
WritePgm ==
    /\ pc = "writers"
    /\ Len(files) < MaxWrites
    /\ \E img \in WriterImages :
          files' = Append(files, write_pgm_P5(img, compression_info, Now))
    /\ UNCHANGED <<compression_info, grid, proc, payload, pc, image, quadtree, nfilter,
                   stream, decoded, painted, pulled, calls>>

NextWriters == WriteQtc \/ WritePgm

SpecWriters == InitWriters /\ [][NextWriters]_vars

\* ------------------------------------------------------------------ runs with the grid

\* What a walk that read past the node array can end in: it found a
\* non-zero u and returned, or it went on until the process was killed.
GridOutcomes(q, next) ==
    IF \E i \in grid_reads(q, 0) : i >= q.total_nodes
    THEN {next, "crashed"}
    ELSE {next}

\* -g while encoding: the grid of the tree as built and filtered.
GridBuilt ==
    /\ pc = "built"
    /\ \E g \in GarbageBytes : grid' = generate_segmentation_grid(quadtree, g)
    /\ pc' \in GridOutcomes(quadtree, "built")
    /\ UNCHANGED <<compression_info, files, proc, payload, image, quadtree, nfilter, stream, decoded,
                   painted, pulled, calls>>

\* -g while decoding: the grid of the decoded tree, after the image.
GridDecoded ==
    /\ pc = "painted"
    /\ \E g \in GarbageBytes : grid' = generate_segmentation_grid(decoded, g)
    /\ pc' \in GridOutcomes(decoded, "gridded")
    /\ UNCHANGED <<compression_info, files, proc, payload, image, quadtree, nfilter, stream, decoded,
                   painted, pulled, calls>>

NextGrid == Build \/ Filter \/ GridBuilt \/ Encode \/ Decode \/ Paint \/ GridDecoded

SpecGrid == Init /\ [][NextGrid]_vars

\* The decoder runs with -g: the grid of the tree decoded from the file.
NextDecodeGrid == ReadFile \/ Decode \/ Paint \/ GridDecoded

SpecDecodeGrid == InitDecode /\ [][NextDecodeGrid]_vars

\* ------------------------------------------------------------------ properties

Nodes(q) == 0..(q.total_nodes - 1)

Internal(q) == {i \in Nodes(q) : ~is_leaf(q, i)}

Leaves(q) == {i \in Nodes(q) : is_leaf(q, i)}

Children(i) == {4 * i + 1, 4 * i + 2, 4 * i + 3, 4 * i + 4}

\* The quadrant of the image node i stands for, following the clockwise
\* order of the children: 1 top-left, 2 top-right, 3 bottom-right,
\* 4 bottom-left.
RECURSIVE Region(_, _)
Region(levels, i) ==
    IF i = 0 THEN [x |-> 0, y |-> 0, size |-> Pow(2, levels)]
    ELSE LET p  == Region(levels, (i - 1) \div 4)
             cs == p.size \div 2
             k  == ((i - 1) % 4) + 1
         IN  [ x    |-> p.x + (IF k \in {2, 3} THEN cs ELSE 0),
               y    |-> p.y + (IF k \in {3, 4} THEN cs ELSE 0),
               size |-> cs ]

\* The pixel values of img inside region r.
PixelsIn(img, r) ==
    { img.image[yy * img.width + xx] :
        xx \in r.x..(r.x + r.size - 1), yy \in r.y..(r.y + r.size - 1) }

\* The serialised fields of two trees agree node by node.
SameFields(a, b) ==
    /\ a.total_nodes = b.total_nodes
    /\ a.levels = b.levels
    /\ \A i \in Nodes(a) :
          /\ a.nodes[i].moyenne = b.nodes[i].moyenne
          /\ a.nodes[i].epsilon = b.nodes[i].epsilon
          /\ a.nodes[i].u = b.nodes[i].u

Lossless == nfilter = 0

\* C1: decode(encode(build(R))) has the mean, epsilon and uniform flag of
\* build(R) at every node, and painting it gives R back pixel for pixel,
\* for every raster R of side 2^n, n >= 0.
C1_LosslessRoundTrip ==
    /\ (pc \in {"decoded", "painted"} /\ Lossless) => SameFields(decoded, quadtree)
    /\ (pc = "painted" /\ Lossless) => painted.image = image.image

\* The same round trip for the runs in which encode stored every byte
\* inside its allocation.
RoundTripWithinAllocation ==
    ~stream.oob => C1_LosslessRoundTrip

ChildMeans(q, i) ==
    q.nodes[4 * i + 1].moyenne + q.nodes[4 * i + 2].moyenne
        + q.nodes[4 * i + 3].moyenne + q.nodes[4 * i + 4].moyenne

\* C2: after build, 4 * mean + epsilon of every internal node is the sum of
\* the means of its four children, with epsilon in 0..3 and mean in 0..255.
C2_MeanEpsilon ==
    (pc # "read" /\ Lossless) =>
        \A i \in Internal(quadtree) :
            /\ 4 * quadtree.nodes[i].moyenne + quadtree.nodes[i].epsilon
                  = ChildMeans(quadtree, i)
            /\ quadtree.nodes[i].epsilon \in 0..3
            /\ quadtree.nodes[i].moyenne \in 0..255

C2_Witness ==
    /\ pc = "built" /\ Lossless
    /\ \E i \in Internal(quadtree) : quadtree.nodes[i].epsilon = 3
    /\ \E i \in Internal(quadtree) : i # 0 /\ quadtree.nodes[i].epsilon = 0

\* C3: after build, a node is uniform exactly when all pixels of the
\* quadrant it covers are equal.
C3_UniformIffFlat ==
    (pc # "read" /\ Lossless) =>
        \A i \in Nodes(quadtree) :
            (quadtree.nodes[i].u = 1)
                <=> (Cardinality(PixelsIn(image, Region(quadtree.levels, i))) = 1)

C3_Witness ==
    /\ pc = "built" /\ Lossless
    /\ quadtree.levels = 2
    /\ quadtree.nodes[0].u = 0
    /\ \E i \in Internal(quadtree) : i # 0 /\ quadtree.nodes[i].u = 1
    /\ \E i \in Internal(quadtree) : i # 0 /\ quadtree.nodes[i].u = 0

\* C4: in a built tree, and after any number of calls of filtrage on it,
\* every uniform node has epsilon 0.
C4_UniformEpsilonZero ==
    (pc # "read") =>
        \A i \in Nodes(quadtree) :
            quadtree.nodes[i].u = 1 => quadtree.nodes[i].epsilon = 0

\* A filtered tree with a node filtrage made uniform although the means of
\* its children do not add up to four times its own.
C4_Witness ==
    /\ pc = "built" /\ nfilter > 0
    /\ \E i \in Internal(quadtree) :
          /\ quadtree.nodes[i].u = 1
          /\ ChildMeans(quadtree, i) % 4 # 0

\* C5: after build every leaf is uniform with epsilon 0 and holds the pixel
\* at the position the clockwise child order leads to, and every pixel is
\* held by exactly one leaf.
C5_Leaves ==
    (pc # "read" /\ Lossless) =>
        /\ \A i \in Leaves(quadtree) :
              LET r == Region(quadtree.levels, i)
              IN  /\ r.size = 1
                  /\ quadtree.nodes[i].moyenne = image.image[r.y * image.width + r.x]
                  /\ quadtree.nodes[i].u = 1
                  /\ quadtree.nodes[i].epsilon = 0
        /\ \A xx \in 0..(image.width - 1) : \A yy \in 0..(image.width - 1) :
              Cardinality({i \in Leaves(quadtree) :
                              LET r == Region(quadtree.levels, i)
                              IN  r.x = xx /\ r.y = yy}) = 1

C5_Witness ==
    /\ pc = "built" /\ Lossless
    /\ quadtree.levels = 2
    /\ Cardinality({quadtree.nodes[i].moyenne : i \in Leaves(quadtree)}) >= 5

\* The fields the format gives node i of tree q, as <<value, width>> pairs.
MeanField(q, i) == << <<q.nodes[i].moyenne, 8>> >>

EpsilonFields(q, i) ==
    IF q.nodes[i].epsilon = 0
    THEN << <<q.nodes[i].epsilon, 2>>, <<q.nodes[i].u, 1>> >>
    ELSE << <<q.nodes[i].epsilon, 2>> >>

FormatFields(q, i) ==
    IF i = 0 THEN MeanField(q, i) \o EpsilonFields(q, i)
    ELSE IF q.nodes[(i - 1) \div 4].u = 1 THEN << >>
    ELSE IF i % 4 = 0
         THEN (IF i \in Leaves(q) THEN << >> ELSE EpsilonFields(q, i))
    ELSE IF i \in Leaves(q) THEN MeanField(q, i)
    ELSE MeanField(q, i) \o EpsilonFields(q, i)

RECURSIVE FormatBody(_, _)
FormatBody(q, i) ==
    IF i >= q.total_nodes THEN << >>
    ELSE FormatFields(q, i) \o FormatBody(q, i + 1)

Encoded == pc \in {"encoded", "decoded", "painted"}

LowBits(v, n) == v % Pow(2, n)

\* C7: under any interleaving of pushes and pulls in which no pull runs
\* ahead of the pushes, the k-th pull returns the low n bits given to the
\* k-th push.
C7_PullReturnsPush ==
    pc \in {"bits", "read_past"} =>
        \A k \in 1..Len(pulled) :
            pulled[k].avail >= pulled[k].n
                => pulled[k].dest = LowBits(stream.log[k][1], stream.log[k][2])

\* C8: a read_n_bits that asks for more bits than remain unread fails.
C8_UnderflowFails ==
    pc \in {"bits", "read_past"} =>
        \A k \in 1..Len(pulled) :
            pulled[k].avail < pulled[k].n => pulled[k].failed

\* Bits pushed before the first finishBitStream.
BitsPushed == SumWidths(stream.log, calls.push)

\* C10: once a stream that was only written is finished, ptr - start is
\* ceil(bits pushed / 8), the padding bits of the last byte are 0, and
\* another finishBitStream changes nothing.
C10_FinishLength ==
    (pc = "bits" /\ calls.finish >= 1 /\ pulled = << >>) =>
        /\ stream.ptr - stream.start = (BitsPushed + 7) \div 8
        /\ BitsPushed % 8 # 0 =>
              LowBits(stream.buf[BitsPushed \div 8], 8 - (BitsPushed % 8)) = 0
        /\ finishBitStream(stream) = stream

\* Eleven bits pushed into memory that held 1s, then finished twice.
C10_Witness ==
    /\ pc = "bits"
    /\ calls.finish = 2
    /\ pulled = << >>
    /\ BitsPushed = 11
    /\ stream.log[2] = <<255, 8>>
    /\ stream.buf[1] = 224

\* Bits decode took from the stream.
BitsConsumed == stream.start * CHAR_BIT + (CHAR_BIT - stream.capa)

\* C9: decode returns a tree only for a payload that holds every bit it
\* asks for, never reads a byte past the end of the payload, and never
\* lets the node count leave the range of int.
C9_DecodeRejectsShortPayload ==
    /\ pc \in {"decoded", "painted"} => BitsConsumed <= CHAR_BIT * Len(payload)
    /\ pc \in {"decoded", "painted"} \cup OverflowOutcomes => ~stream.past
    /\ pc \notin OverflowOutcomes

\* The bytes of the stream from start up to ptr, by position.
OutputLength(s) == s.ptr - s.start

OutputByte(s, k) == s.buf[s.start + k]

UniformImage == Cardinality({image.image[i] : i \in DOMAIN image.image}) = 1

\* The payload of a tree whose root is uniform: the levels byte, the root's
\* mean, and epsilon 00, u 1 followed by five padding zeros (00100000).
MinimumPayload(s, q) ==
    /\ OutputLength(s) = 3
    /\ OutputByte(s, 0) = q.levels
    /\ OutputByte(s, 1) = q.nodes[0].moyenne
    /\ OutputByte(s, 2) = 32
    /\ s.log = << <<q.levels, 8>>, <<q.nodes[0].moyenne, 8>>, <<0, 2>>, <<1, 1>>,
                  <<0, 5>> >>

\* C11: a uniform raster of side 2^n encodes to the levels byte followed by
\* the 11 root bits (mean, epsilon 00, u 1) and zero padding, 3 bytes in
\* all, and no node but the root emits a bit.
C11_UniformPayload ==
    (pc = "encoded" /\ UniformImage) => MinimumPayload(stream, quadtree)

\* The same for the runs in which encode stored every byte inside its
\* allocation.
UniformPayloadWithinAllocation ==
    ~stream.oob => C11_UniformPayload

\* The 1x1 raster [128].
Raster128 == image.width = 1 /\ image.image[0] = 128

Raster2x2 ==
    /\ image.width = 2
    /\ image.image[0] = 10
    /\ image.image[1] = 20
    /\ image.image[2] = 30
    /\ image.image[3] = 40

\* What build, encode and decode give for Raster2x2 when the three means
\* emitted are a, b, c and the fourth child is interpolated as d.
Example2x2(a, b, c, d) ==
    /\ (pc = "built" /\ Lossless) =>
          /\ quadtree.nodes[0].moyenne = 25
          /\ quadtree.nodes[0].epsilon = 0
          /\ quadtree.nodes[0].u = 0
    /\ (pc = "encoded" /\ Lossless) =>
          stream.log = << <<1, 8>>, <<25, 8>>, <<0, 2>>, <<0, 1>>,
                          <<a, 8>>, <<b, 8>>, <<c, 8>>, <<0, 5>> >>
    /\ (pc = "decoded" /\ Lossless) =>
          /\ decoded.nodes[4].moyenne = d
          /\ interpolated(decoded, decoded.nodes[0], 4) = 4 * 25 + 0 - a - b - c
          /\ 4 * 25 + 0 - a - b - c = d

\* C13 as stated: for the raster [10, 20, 30, 40] the root has mean 25,
\* epsilon 0, u 0, encode emits the child means 10, 20, 30 and decode
\* interpolates the fourth child as 40.
C13_RowMajorChildren == Raster2x2 => Example2x2(10, 20, 30, 40)

\* C13 amended: the children follow the clockwise order (top-left,
\* top-right, bottom-right, bottom-left), so encode emits 10, 20, 40 and
\* decode interpolates the fourth child, bottom-left, as
\* 4 * 25 + 0 - 10 - 20 - 40 = 30.
C13_ClockwiseChildren == Raster2x2 => Example2x2(10, 20, 40, 30)

C13_Witness ==
    /\ pc = "decoded"
    /\ Lossless
    /\ Raster2x2
    /\ decoded.nodes[3].moyenne = 40
    /\ decoded.nodes[4].moyenne = 30

\* The tree after one more call of filtrage at the root.
Filtered(q, sigma, alpha) == filtrage(q, 0, sigma, alpha).q

\* C14: on every tree, built or filtered, a second call of filtrage at the
\* root with the same sigma and alpha leaves the mean, epsilon and uniform
\* flag of every node as the first call left them.
C14_FilterIdempotent ==
    pc = "built" =>
        \A sigma \in Sigmas : \A alpha \in Alphas :
            SameFields(Filtered(Filtered(quadtree, sigma, alpha), sigma, alpha),
                       Filtered(quadtree, sigma, alpha))

\* A tree filtered twice with one sigma and alpha, the first call having
\* made nodes uniform.
C14_Witness ==
    /\ pc = "built"
    /\ nfilter = 2
    /\ \E sigma \in Sigmas : \E alpha \in Alphas :
          /\ ~SameFields(Filtered(build_quadtree_from_image(image, 0), sigma, alpha),
                         build_quadtree_from_image(image, 0))
          /\ quadtree = Filtered(Filtered(build_quadtree_from_image(image, 0),
                                          sigma, alpha), sigma, alpha)

\* What a call of filtrage may do to tree a, giving tree b: the shape, the
\* means and the variances stay, and a node either stays as it is or goes
\* from uniform 0 to uniform 1 with epsilon 0.
FilterFrame(a, b) ==
    /\ b.total_nodes = a.total_nodes
    /\ b.levels = a.levels
    /\ DOMAIN b.nodes = DOMAIN a.nodes
    /\ \A i \in Nodes(a) :
          /\ b.nodes[i].moyenne = a.nodes[i].moyenne
          /\ b.nodes[i].v = a.nodes[i].v
          /\ \/ b.nodes[i] = a.nodes[i]
             \/ a.nodes[i].u = 0 /\ b.nodes[i].u = 1 /\ b.nodes[i].epsilon = 0
          /\ a.nodes[i].u = 1 => b.nodes[i].u = 1

\* C15: a call of filtrage leaves total_nodes, levels and every mean and
\* variance alone, and writes a node only to turn uniform 0 into 1 with
\* epsilon 0, so the uniform nodes afterwards include those before.
C15_FilterFrame ==
    [][(pc = "built" /\ nfilter' = nfilter + 1) => FilterFrame(quadtree, quadtree')]_vars

\* A filtered tree in which a node with a remainder was made uniform.
C15_Witness ==
    /\ pc = "built"
    /\ nfilter >= 1
    /\ \E i \in Nodes(quadtree) :
          /\ quadtree.nodes[i].u = 1
          /\ build_quadtree_from_image(image, 0).nodes[i].u = 0
          /\ build_quadtree_from_image(image, 0).nodes[i].epsilon # 0

\* C16: when the root is uniform after filtering, encode produces the
\* minimum payload (levels byte and 11 root bits, 3 bytes) and every pixel
\* painted from the decoded tree equals the root mean.
C16_UniformRootCollapses ==
    (nfilter >= 1 /\ quadtree.nodes[0].u = 1) =>
        /\ pc = "encoded" => MinimumPayload(stream, quadtree)
        /\ pc = "painted" =>
              \A i \in DOMAIN painted.image :
                  painted.image[i] = quadtree.nodes[0].moyenne

\* The same for the runs in which encode stored every byte inside its
\* allocation.
UniformRootWithinAllocation ==
    ~stream.oob => C16_UniformRootCollapses

\* Such a run on a raster that was not uniform.
UniformRootReached ==
    /\ pc = "painted"
    /\ nfilter >= 1
    /\ quadtree.nodes[0].u = 1
    /\ ~UniformImage
    /\ quadtree.levels = 2

IsPowerOfTwo(w) == \E k \in 0..Log2(w) : Pow(2, k) = w

\* C17: build_quadtree_from_image builds no tree for an image whose width
\* is not a power of two.
C17_RejectsIrregularWidth ==
    pc = "built" => IsPowerOfTwo(image.width)

Exited == pc \in {"exit_success", "exit_failure"}

\* C18: a run given -a with a value <= 0, zero included, does not end in
\* success and writes no output file.
C18_RejectsNonPositiveAlpha ==
    (proc.alpha.given /\ proc.alpha.num <= 0) =>
        (pc # "exit_success" /\ proc.out = NoOutput)

\* The values below zero are the ones the option loop turns away.
NegativeAlphaRejected ==
    (proc.alpha.given /\ proc.alpha.num < 0 /\ pc # "main") =>
        (pc = "exit_failure" /\ proc.out = NoOutput /\ proc.heap = NoHeap)

\* A run with -a 0 that wrote its QTC file and ended in success.
ZeroAlphaAccepted ==
    /\ proc.alpha.given
    /\ proc.alpha.num = 0
    /\ pc = "exit_success"
    /\ proc.out.kind = "qtc"

\* C19: when a run of the encode or decode branch has ended, on success or
\* on failure, every block it allocated has been released exactly once.
C19_ReleasedExactlyOnce ==
    Exited => \A a \in AllocNames : proc.heap[a] \in {"none", "freed"}

\* The runs that end in success do release every block once, the buffer of
\* the stream included after decode moved its read cursor.
SuccessReleasesAll ==
    pc = "exit_success" =>
        /\ \A a \in AllocNames : proc.heap[a] = "freed"
        /\ proc.mode = "u" => stream.start > 0

\* A run ended by the pixel check: the Image struct was freed, its pixel
\* array was not.
PixelCheckLeaks ==
    /\ pc = "exit_failure"
    /\ proc.heap["image"] = "freed"
    /\ proc.heap["image.image"] = "live"

\* C20: after the filtering step of a run with 0 < alpha <= 1, every node
\* of the tree is as build_quadtree_from_image made it.
C20_NoFilteringUpToOne ==
    (pc = "c_encode" /\ proc.alpha.given
        /\ 0 < proc.alpha.num /\ proc.alpha.num <= proc.alpha.den) =>
        quadtree.nodes = build_quadtree_from_image(image, 0).nodes

\* Such a run in which the root was made uniform: v = 0.25 is not above
\* sigma = medvar / maxvar = 1.
FilteredBelowOne ==
    /\ pc = "c_encode"
    /\ proc.alpha.given /\ proc.alpha.num = 1 /\ proc.alpha.den = 2
    /\ nfilter = 1
    /\ quadtree.nodes[0].u = 1
    /\ build_quadtree_from_image(image, 0).nodes[0].u = 0

\* C21: when encode has returned, no bit was stored outside the
\* 2 * total_nodes bytes initBitStream allocated for the stream.
C21_EncodeWithinStorage ==
    pc = "encoded" => ~stream.oob

\* From one level up the allocation suffices: at most 11 bits per node
\* and 8 bits of levels fit in 2 * total_nodes bytes once total_nodes >= 5.
EncodeWithinStorageAboveZero ==
    (pc = "encoded" /\ quadtree.levels >= 1) => ~stream.oob

\* The encoding of a one-node tree: 19 bits pushed into 2 bytes.
OneNodeOverrun ==
    /\ pc = "encoded"
    /\ quadtree.total_nodes = 1
    /\ stream.size = 2
    /\ stream.oob

\* The nodes decode fills through interpolation_4th_child: the fourth
\* children of the parents that are not uniform.
Interpolated(q) ==
    {i \in Nodes(q) : i > 0 /\ i % 4 = 0 /\ q.nodes[(i - 1) \div 4].u = 0}

\* C22: when decode has read the encoding of a built tree, filtered or
\* not, the value it computes for a fourth child,
\* 4 * parent.mean + parent.epsilon - mean(i-1) - mean(i-2) - mean(i-3),
\* lies in 0..255 before the store into the 8-bit field and is the mean
\* the encoded tree holds at index i.
C22_FourthChildExact ==
    pc \in {"decoded", "painted"} =>
        \A i \in Interpolated(decoded) :
            LET value == interpolated(decoded, decoded.nodes[(i - 1) \div 4], i)
            IN  /\ value \in 0..255
                /\ value = quadtree.nodes[i].moyenne
                /\ decoded.nodes[i].moyenne = value

\* A filtered tree of two levels decoded with a fourth child that is a
\* leaf and one that is an internal node, under parents with a remainder.
C22_Witness ==
    /\ pc = "decoded"
    /\ nfilter >= 1
    /\ decoded.levels = 2
    /\ \E i, j \in Interpolated(decoded) :
          /\ is_leaf(decoded, i) /\ ~is_leaf(decoded, j)
          /\ decoded.nodes[(i - 1) \div 4].epsilon # 0
          /\ decoded.nodes[(j - 1) \div 4].epsilon # 0
          /\ decoded.nodes[i].moyenne # decoded.nodes[i - 1].moyenne

\* sigma0 * alpha^k
RECURSIVE RatPow(_, _, _)
RatPow(sigma0, alpha, k) ==
    IF k = 0 THEN sigma0 ELSE RatPow(RatMul(sigma0, alpha), alpha, k - 1)

\* Tree f is tree q after filtrage at the root with sigma0 and alpha: a
\* node that was not uniform is uniform in f exactly when its four
\* children are uniform in f and its variance is at most sigma0 * alpha^k,
\* k its depth; a node that was uniform, and all below it, is untouched.
MarksExactly(q, f, sigma0, alpha) ==
    /\ \A i \in Internal(q) :
          q.nodes[i].u = 0 =>
             ( f.nodes[i].u = 1
                 <=> /\ \A c \in Children(i) : f.nodes[c].u = 1
                     /\ ~VarAbove(q, i, RatPow(sigma0, alpha, Depth(i))) )
    /\ \A i \in Nodes(q) : q.nodes[i].u = 1 => f.nodes[i] = q.nodes[i]

\* C23: filtrage started at the root with threshold sigma0 makes a
\* non-uniform node at depth k uniform if and only if its four children
\* are uniform after their own visits and variance(node) <= sigma0 * alpha^k;
\* a node that is already uniform is left, with its descendants, as it was.
C23_FilterMarks ==
    pc = "built" =>
        \A sigma \in Sigmas : \A alpha \in Alphas :
            MarksExactly(quadtree, Filtered(quadtree, sigma, alpha), sigma, alpha)

\* A call of filtrage on a tree of two levels that made one node of depth 1
\* uniform and left another one, whose children are all uniform, as it was.
C23_Witness ==
    /\ pc = "built"
    /\ nfilter = 1
    /\ quadtree.levels = 2
    /\ \E i, j \in 1..4 :
          /\ build_quadtree_from_image(image, 0).nodes[i].u = 0
          /\ quadtree.nodes[i].u = 1
          /\ quadtree.nodes[j].u = 0
          /\ \A c \in Children(j) : quadtree.nodes[c].u = 1

UniformQuadrantsFlat(q, img) ==
    \A i \in Nodes(q) :
        q.nodes[i].u = 1 =>
            PixelsIn(img, Region(q.levels, i)) = {q.nodes[i].moyenne}

\* C25: in the raster build_image_from_quadtree paints leaf by leaf from a
\* tree returned by decode, the quadrant of every node with uniform = 1 is
\* filled with the mean of that node, so a painter that stops at the first
\* uniform node and fills its quadrant paints the same raster.
C25_EarlyStopSameRaster ==
    pc = "painted" => UniformQuadrantsFlat(decoded, painted)

\* A painted tree of two levels with a uniform node of depth 1 under a
\* root that is not uniform, decoded from the encoding of a filtered tree
\* whose leaves under that node differ.
C25_Witness ==
    /\ pc = "painted"
    /\ decoded.levels = 2
    /\ decoded.nodes[0].u = 0
    /\ \E i \in 1..4 :
          /\ decoded.nodes[i].u = 1
          /\ \E c \in Children(i) : quadtree.nodes[c].moyenne # quadtree.nodes[i].moyenne

\* The nodes at which the walk of the grid renderer stops and draws: the
\* uniform nodes without a uniform ancestor.
RECURSIVE NoUniformAncestor(_, _)
NoUniformAncestor(q, i) ==
    \/ i = 0
    \/ /\ q.nodes[(i - 1) \div 4].u = 0
       /\ NoUniformAncestor(q, (i - 1) \div 4)

Drawn(q) == {i \in Nodes(q) : q.nodes[i].u = 1 /\ NoUniformAncestor(q, i)}

\* Pixel <<px, py>> is in the row just above region r or in the column just
\* left of it.
OnBorder(px, py, r) ==
    \/ (py = r.y - 1 /\ px \in r.x..(r.x + r.size - 1))
    \/ (px = r.x - 1 /\ py \in r.y..(r.y + r.size - 1))

\* The nodes of q whose border covers pixel p of a raster as wide as q.
Bordering(q, p) ==
    LET width == Pow(2, q.levels)
    IN  {i \in Drawn(q) : OnBorder(p % width, p \div width, Region(q.levels, i))}

\* C26: in the grid of a decoded tree every pixel is 190 or 255, and a
\* pixel is 190 only on the border of a uniform node that aggregates more
\* than one pixel: the leaves under a parent that is not uniform draw
\* nothing.
C26_AggregatedBlocksOnly ==
    pc = "gridded" =>
        \A p \in DOMAIN grid.image :
            /\ grid.image[p] \in {190, 255}
            /\ grid.image[p] = 190 =>
                  \E i \in Bordering(decoded, p) : NodeSize(decoded, i) > 1

\* Raster img is the grid of tree q.
GridShows(q, img) ==
    \A p \in DOMAIN img.image :
        img.image[p] = IF Bordering(q, p) # {} THEN 190 ELSE 255

\* C26, as the renderer draws, for the grid of a decoded tree and of a
\* built one: a pixel of the grid is 190 exactly when it lies in the row
\* above or the column left of a uniform node that has no uniform
\* ancestor, a single-pixel leaf under a parent that is not uniform
\* included, and 255 otherwise.
C26_EveryUniformBlock ==
    /\ pc = "gridded" => GridShows(decoded, grid)
    /\ (pc = "built" /\ nfilter = 0 /\ grid # NoImage) => GridShows(quadtree, grid)

\* A grid of a decoded tree of two levels in which a pixel is 190 through
\* single-pixel leaves only and another through an aggregated block.
C26_Witness ==
    /\ pc = "gridded"
    /\ decoded.levels = 2
    /\ \E p, r \in DOMAIN grid.image :
          /\ grid.image[p] = 190
          /\ \A i \in Bordering(decoded, p) : NodeSize(decoded, i) = 1
          /\ grid.image[r] = 190
          /\ \E i \in Bordering(decoded, r) : NodeSize(decoded, i) > 1

\* File f with the date of its own writing blanked: the last comment line
\* of a PGM file.
ApartFromDate(f) ==
    [f EXCEPT !.comments = [k \in DOMAIN @ |->
                               IF k = Len(@) THEN [@[k] EXCEPT !.date = 0] ELSE @[k]]]

\* C27: every PGM file a process has written is, apart from the date of
\* its writing, the file write_pgm gives for that image in a process that
\* called no writer before.
C27_WritersHoldNoState ==
    \A k \in DOMAIN files :
        files[k].format = "P5" =>
            \E img \in WriterImages \cup {painted} :
                ApartFromDate(files[k]) = ApartFromDate(write_pgm_P5(img, << >>, 0))

\* The first writer call of a process does give that file.
FirstPgmCarriesNoInfo ==
    (files # << >> /\ files[1].format = "P5") =>
        \E img \in WriterImages \cup {painted} :
            ApartFromDate(files[1]) = ApartFromDate(write_pgm_P5(img, << >>, 0))

\* A PGM file written after a QTC file: it carries the compression date
\* of that earlier call.
PgmCarriesEarlierDate ==
    /\ Len(files) = 2
    /\ files[1].format = "Q1"
    /\ files[2].format = "P5"
    /\ Len(files[2].comments) = 2
    /\ files[2].comments[1].date = 1

\* Every child of a uniform node of q is uniform.
DownwardClosed(q) ==
    \A i \in Internal(q) :
        q.nodes[i].u = 1 => \A c \in Children(i) : q.nodes[c].u = 1

\* The nodes of q under a uniform parent: those encode skips, those decode
\* fills with the mean of the parent.
UnderUniformParent(q) ==
    {i \in Nodes(q) : i > 0 /\ q.nodes[(i - 1) \div 4].u # 0}

\* C28: in the tree build made and filtrage filtered any number of times,
\* and in the tree decode returned, every child of a node with uniform = 1
\* has uniform = 1; the nodes encode skipped on the flag of their parent are
\* the nodes decode filled by inheritance.
C28_DownwardClosure ==
    /\ pc \notin {"read"} => DownwardClosed(quadtree)
    /\ pc \in {"decoded", "painted"} =>
          /\ DownwardClosed(decoded)
          /\ UnderUniformParent(decoded) = UnderUniformParent(quadtree)

\* A decoded tree of two levels with a node of depth 1 that filtrage made
\* uniform, under a root that is not uniform.
C28_Witness ==
    /\ pc = "decoded"
    /\ nfilter >= 1
    /\ decoded.levels = 2
    /\ decoded.nodes[0].u = 0
    /\ \E i \in 1..4 :
          /\ decoded.nodes[i].u = 1
          /\ build_quadtree_from_image(image, 0).nodes[i].u = 0
          /\ Children(i) \subseteq UnderUniformParent(decoded)

\* The closure alone, for a tree decoded from any payload.
DecodedDownwardClosed ==
    pc \in {"decoded", "painted"} => DownwardClosed(decoded)

\* The topmost uniform proper ancestor of node i of q, or -1 without one.
RECURSIVE TopUniformAncestor(_, _)
TopUniformAncestor(q, i) ==
    IF i = 0 THEN 0 - 1
    ELSE LET p == (i - 1) \div 4
             t == TopUniformAncestor(q, p)
         IN  IF t >= 0 THEN t
             ELSE IF q.nodes[p].u = 1 THEN p
             ELSE 0 - 1

\* Bits encode pushes for tree q before the padding of finishBitStream.
EmittedBits(q) ==
    LET fields == << <<q.levels, 8>> >> \o FormatBody(q, 0)
    IN  SumWidths(fields, Len(fields))

\* Tree d is what decoding the encoding of tree f must give.
InSync(f, d) ==
    /\ d.total_nodes = f.total_nodes
    /\ d.levels = f.levels
    /\ \A i \in Nodes(f) :
          /\ d.nodes[i].epsilon = f.nodes[i].epsilon
          /\ d.nodes[i].u = f.nodes[i].u
          /\ d.nodes[i].moyenne =
                IF TopUniformAncestor(f, i) >= 0
                THEN f.nodes[TopUniformAncestor(f, i)].moyenne
                ELSE f.nodes[i].moyenne

\* C29: for the tree F that build made and filtrage filtered, decode
\* consumes exactly the bits encode emitted before the padding; the decoded
\* tree has the epsilon and uniform flag of F at every node, the mean of F
\* at every node without a uniform ancestor and the mean of the topmost
\* uniform ancestor elsewhere; encoding the decoded tree gives the encoding
\* of F again, bit for bit.
C29_LossyRoundTripInSync ==
    (pc \in {"decoded", "painted"} /\ nfilter >= 1) =>
        /\ BitsConsumed = EmittedBits(quadtree)
        /\ InSync(quadtree, decoded)
        /\ encode(decoded, 0) = encode(quadtree, 0)

\* The same for the runs in which encode stored every byte inside its
\* allocation.
LossyRoundTripWithinAllocation ==
    ~stream.oob => C29_LossyRoundTripInSync

\* Such a run on a tree of two levels in which filtrage made a node of
\* depth 1 uniform over leaves of other means.
LossyRoundTripReached ==
    /\ pc = "decoded"
    /\ nfilter >= 1
    /\ ~stream.oob
    /\ quadtree.levels = 2
    /\ \E i \in 1..4 :
          /\ quadtree.nodes[i].u = 1
          /\ \E c \in Children(i) :
                /\ quadtree.nodes[c].moyenne # quadtree.nodes[i].moyenne
                /\ decoded.nodes[c].moyenne = quadtree.nodes[i].moyenne

\* total_nodes and the leaf test of tree q follow the closed forms.
WellShaped(q) ==
    /\ q.total_nodes = (Pow(4, q.levels + 1) - 1) \div 3
    /\ \A i \in Nodes(q) :
          is_leaf(q, i) <=> i >= q.total_nodes - Pow(4, q.levels)

\* The indices the painter reads from node index on: it descends from the
\* nodes that are no leaves.
RECURSIVE PainterReads(_, _)
PainterReads(q, index) ==
    IF index >= q.total_nodes \/ is_leaf(q, index) THEN {index}
    ELSE {index} \cup PainterReads(q, 4 * index + 1)
                 \cup PainterReads(q, 4 * index + 2)
                 \cup PainterReads(q, 4 * index + 3)
                 \cup PainterReads(q, 4 * index + 4)

\* Every index of the set lies in the node array of q, and a child was
\* reached from a node that is no leaf.
WithinTree(q, reads) ==
    \A i \in reads :
        /\ i \in Nodes(q)
        /\ i > 0 => ~is_leaf(q, (i - 1) \div 4)

\* C30: the node count never leaves the closed form (no run ends in an
\* overflowed count or a crash); a decoded tree has total_nodes =
\* (4^(levels+1) - 1) / 3 and its leaves are the indices from
\* total_nodes - 4^levels on; the painter and the grid renderer read
\* indices of [0, total_nodes) only and descend to children only from a
\* node that is no leaf.
C30_HeapIndexSafety ==
    /\ pc \notin OverflowOutcomes
    /\ pc \in {"decoded", "painted", "gridded"} => WellShaped(decoded)
    /\ pc \in {"painted", "gridded"} => WithinTree(decoded, PainterReads(decoded, 0))
    /\ pc = "gridded" => WithinTree(decoded, grid_reads(decoded, 0))

\* The walks on the trees build made and filtrage filtered stay inside
\* the node array: filtrage and the grid renderer stop at the same nodes.
BuiltIndexSafety ==
    pc \in {"built", "encoded"} =>
        /\ WellShaped(quadtree)
        /\ WithinTree(quadtree, grid_reads(quadtree, 0))
        /\ WithinTree(quadtree, PainterReads(quadtree, 0))

\* A one-node tree decoded with u = 0 at its root, and the renderer
\* returned from reading the indices 1 to 4 of its node array.
GridReadPastTree ==
    /\ pc = "gridded"
    /\ decoded.total_nodes = 1
    /\ decoded.nodes[0].u = 0
    /\ {1, 2, 3, 4} \subseteq grid_reads(decoded, 0)
    /\ ~stream.past

====
